---- MODULE Spec2Model ----
(***************************************************************************)
(* commandspec: the process registry (PID_MAP), the signal relay           *)
(* (cleanup_on_ctrlc), the spawn guard (SpawnGuard), the execution facade  *)
(* (execute, scoped_spawn) and the command spec parser (commandify).       *)
(*                                                                         *)
(* Spec       the registry, the relay, the guards and the facade, run by   *)
(*            the caller threads and the relay thread.                     *)
(* SpecFair   the registry, the relay and the guards under fair scheduling *)
(*            (threads that call scoped_spawn and drop their guards).      *)
(* SpecParse  commandify, one step per line of the input text.             *)
(***************************************************************************)
EXTENDS Integers, Sequences, FiniteSets, TLC

VARIABLES
    \* ---- registry, guards, facade, relay (lib.rs 29-157)
    PID_MAP,     \* pid -> process handle stored under it (NoProc: absent)
    lock,        \* holder of the PID_MAP mutex: NoThread, a thread, Relay
    pc,          \* thread -> position in the call it is running
    cur,         \* thread -> process handle the running call works on
    guard,       \* thread -> the SpawnGuard it owns: [pid, proc] or NoGuard
    result,      \* thread -> what the call it has just finished returned
    waited,      \* thread -> the exit status its child.wait() returned
    os,          \* process -> "unborn" | "running" | "zombie" | "reaped"
    pidOf,       \* process -> the pid the OS gave it (NoPid while unborn)
    sent,        \* process handle -> signals Process::signal was called with
    installed,   \* whether the relay's handler is installed
    relayPc,     \* "idle" | "dispatch" | "iter" | "exit"
    relaySig,    \* the signal being dispatched
    relayTodo,   \* pids the iteration over PID_MAP has still to visit
    relaySnap,   \* handles that were in PID_MAP when the iteration began
    parent,      \* Running, or Exited(code)
    \* ---- commandify (lib.rs 350-424)
    value,          \* the spec text, a sequence of characters
    lines,          \* value.trim().split('\n')
    li,             \* index of the line the loop is at
    state,          \* SpecState: "Cd" | "Env" | "Cmd"
    env,            \* HashMap<String, String>
    cd,             \* Option<String>: <<>> or <<path>>
    command_lines,  \* Vec<String>
    ppc,            \* "off" | "loop" | "finish" | "to_command" | "done"
    spec,           \* the CommandSpec built at lib.rs 413
    cmd,            \* the Command to_command built
    ret             \* what commandify returned, or the panic that ended it

cvars == <<PID_MAP, lock, pc, cur, guard, result, waited, os, pidOf, sent,
           installed, relayPc, relaySig, relayTodo, relaySnap, parent>>

pvars == <<value, lines, li, state, env, cd, command_lines, ppc, spec, cmd, ret>>

vars == <<cvars, pvars>>

----------------------------------------------------------------------------
(* Bounds *)

MaxProcs == 2      \* processes spawned in one run
MaxLines == 3      \* lines of a command spec text

Threads == {1, 2}  \* two caller threads, beside the relay
Pids    == {1, 2}  \* the pids the OS hands out (and hands out again once free)
Procs   == 1..MaxProcs

Absent   == 0      \* Option::None
NoProc   == Absent
NoPid    == Absent
NoThread == Absent
Relay    == Cardinality(Threads) + 1    \* lock holder id of the relay thread

Signaled == -1     \* ExitStatus::code() == None
ExitStatus == 130  \* the exit status of the parent on SIGINT
ExitCodes == {0, 7}

Signals == {"SIGINT", "SIGCHLD", "SIGTERM"}

NoGuard == [pid |-> NoPid, proc |-> NoProc]
NoResult == [tag |-> "none", code |-> 0]
\* the parent process: alive, or ended with an exit code (Signaled: by a signal)
Running == [alive |-> TRUE, code |-> 0]
Exited(code) == [alive |-> FALSE, code |-> code]

----------------------------------------------------------------------------
(* The OS process capability: Process::new, Process::id, Process::signal,   *)
(* Process::reap, and std's Command::spawn / Child::wait.                    *)

\* pids no live (running or zombie) process holds: the OS may hand them out.
FreePids == Pids \ {pidOf[p] : p \in {q \in Procs : os[q] \in {"running", "zombie"}}}

\* the process a successful spawn creates
NextProc == CHOOSE p \in Procs : os[p] = "unborn" /\ \A q \in Procs : q < p => os[q] # "unborn"

CanSpawn == (\E p \in Procs : os[p] = "unborn") /\ FreePids # {}

\* Process::signal(sig): the signal goes to the handle's process group.
ProcessSignal(p, sig) == [sent EXCEPT ![p] = @ \cup {sig}]

\* Process::reap(): collect the exit status if the process has exited; never blocks.
ProcessReap(p) == [os EXCEPT ![p] = IF @ = "zombie" THEN "reaped" ELSE @]

\* the pid of a process that has been reaped is free again
Released(newOs) == [p \in Procs |-> IF newOs[p] = "reaped" THEN NoPid ELSE pidOf[p]]

----------------------------------------------------------------------------
(* Facade: scoped_spawn (lib.rs 151-156) *)

\* let process = Process::new(self)?;  -- the spawn fails: the io::Error is returned
ScopedSpawnFail(t) ==
    /\ parent = Running /\ pc[t] = "idle" /\ guard[t] = NoGuard
    /\ result' = [result EXCEPT ![t] = [tag |-> "SpawnErr", code |-> 0]]
    /\ pc' = [pc EXCEPT ![t] = "done"]
    /\ UNCHANGED <<PID_MAP, lock, cur, guard, waited, os, pidOf, sent,
                   installed, relayPc, relaySig, relayTodo, relaySnap, parent, pvars>>

\* let process = Process::new(self)?; let id = process.id();
ScopedSpawnNew(t) ==
    /\ parent = Running /\ pc[t] = "idle" /\ guard[t] = NoGuard
    /\ CanSpawn
    /\ \E pid \in FreePids :
         /\ os' = [os EXCEPT ![NextProc] = "running"]
         /\ pidOf' = [pidOf EXCEPT ![NextProc] = pid]
    /\ cur' = [cur EXCEPT ![t] = NextProc]
    /\ pc' = [pc EXCEPT ![t] = "ss_insert"]
    /\ UNCHANGED <<PID_MAP, lock, guard, result, waited, sent,
                   installed, relayPc, relaySig, relayTodo, relaySnap, parent, pvars>>

\* HashMap::insert(id, process): stores the handle under id, replacing what was there
Insert(map, id, process) == [map EXCEPT ![id] = process]

\* PID_MAP.lock().unwrap().insert(id, process);  Ok(SpawnGuard(id))
\* The MutexGuard is a temporary of this one statement: taken, insert, released.
ScopedSpawnInsert(t) ==
    /\ parent = Running /\ pc[t] = "ss_insert"
    /\ lock = NoThread
    /\ PID_MAP' = Insert(PID_MAP, pidOf[cur[t]], cur[t])
    /\ guard' = [guard EXCEPT ![t] = [pid |-> pidOf[cur[t]], proc |-> cur[t]]]
    /\ result' = [result EXCEPT ![t] = [tag |-> "Guard", code |-> 0]]
    /\ cur' = [cur EXCEPT ![t] = NoProc]
    /\ pc' = [pc EXCEPT ![t] = "done"]
    /\ UNCHANGED <<lock, waited, os, pidOf, sent,
                   installed, relayPc, relaySig, relayTodo, relaySnap, parent, pvars>>

\* the caller takes the value its call returned
Return(t) ==
    /\ parent = Running /\ pc[t] = "done"
    /\ result' = [result EXCEPT ![t] = NoResult]
    /\ waited' = [waited EXCEPT ![t] = 0]
    /\ pc' = [pc EXCEPT ![t] = "idle"]
    /\ UNCHANGED <<PID_MAP, lock, cur, guard, os, pidOf, sent,
                   installed, relayPc, relaySig, relayTodo, relaySnap, parent, pvars>>

----------------------------------------------------------------------------
(* Spawn guard: SpawnGuard::drop (lib.rs 72-76) *)

\* HashMap::remove(&id)
Remove(map, id) == [map EXCEPT ![id] = NoProc]

\* DropLock with remove(&self.0).unwrap() in the place of the if-let: a
\* teardown that finds no entry under its id panics (exit status 101)
DropLock_PanicsOnAbsent(t) ==
    /\ parent = Running /\ pc[t] = "idle" /\ guard[t] # NoGuard
    /\ lock = NoThread
    /\ PID_MAP' = Remove(PID_MAP, guard[t].pid)
    /\ IF PID_MAP[guard[t].pid] # NoProc
       THEN /\ lock' = t
            /\ cur' = [cur EXCEPT ![t] = PID_MAP[guard[t].pid]]
            /\ pc' = [pc EXCEPT ![t] = "drop_reap"]
            /\ guard' = guard
            /\ parent' = parent
       ELSE /\ guard' = [guard EXCEPT ![t] = NoGuard]
            /\ parent' = Exited(101)
            /\ UNCHANGED <<lock, cur, pc>>
    /\ UNCHANGED <<result, waited, os, pidOf, sent,
                   installed, relayPc, relaySig, relayTodo, relaySnap, pvars>>

\* if let Some(process) = PID_MAP.lock().unwrap().remove(&self.0) { .. }
\* The MutexGuard is a temporary of the scrutinee: it lives to the end of the
\* if-let, so on Some the body runs with the lock held; on None the if-let
\* ends at once.
DropLock(t) ==
    /\ parent = Running /\ pc[t] = "idle" /\ guard[t] # NoGuard
    /\ lock = NoThread
    /\ PID_MAP' = Remove(PID_MAP, guard[t].pid)
    /\ IF PID_MAP[guard[t].pid] # NoProc
       THEN /\ lock' = t
            /\ cur' = [cur EXCEPT ![t] = PID_MAP[guard[t].pid]]
            /\ pc' = [pc EXCEPT ![t] = "drop_reap"]
            /\ guard' = guard
       ELSE /\ guard' = [guard EXCEPT ![t] = NoGuard]
            /\ UNCHANGED <<lock, cur, pc>>
    /\ UNCHANGED <<result, waited, os, pidOf, sent,
                   installed, relayPc, relaySig, relayTodo, relaySnap, parent, pvars>>

\* DropReap with the MutexGuard kept past the if-let (leaked): the lock stays held
DropReap_KeepsLock(t) ==
    /\ parent = Running /\ pc[t] = "drop_reap"
    /\ os' = ProcessReap(cur[t])
    /\ pidOf' = Released(os')
    /\ guard' = [guard EXCEPT ![t] = NoGuard]
    /\ cur' = [cur EXCEPT ![t] = NoProc]
    /\ pc' = [pc EXCEPT ![t] = "idle"]
    /\ UNCHANGED <<PID_MAP, lock, result, waited, sent,
                   installed, relayPc, relaySig, relayTodo, relaySnap, parent, pvars>>

\* { process.reap() } and the end of the if-let: the MutexGuard and the
\* removed Process are dropped
DropReap(t) ==
    /\ parent = Running /\ pc[t] = "drop_reap"
    /\ os' = ProcessReap(cur[t])
    /\ pidOf' = Released(os')
    /\ lock' = NoThread
    /\ guard' = [guard EXCEPT ![t] = NoGuard]
    /\ cur' = [cur EXCEPT ![t] = NoProc]
    /\ pc' = [pc EXCEPT ![t] = "idle"]
    /\ UNCHANGED <<PID_MAP, result, waited, sent,
                   installed, relayPc, relaySig, relayTodo, relaySnap, parent, pvars>>

----------------------------------------------------------------------------
(* Facade: execute (lib.rs 129-149) *)

\* the match on the status with its arms for a code and for no code exchanged
Outcome_ArmsExchanged(st) ==
    IF st = 0 THEN [tag |-> "Ok", code |-> 0]
    ELSE IF st # Signaled THEN [tag |-> "Interrupt", code |-> 0]
    ELSE [tag |-> "Code", code |-> st]

\* the match on child.wait()'s status (lib.rs 133-141)
Outcome(st) ==
    IF st = 0 THEN [tag |-> "Ok", code |-> 0]
    ELSE IF st # Signaled THEN [tag |-> "Code", code |-> st]
    ELSE [tag |-> "Interrupt", code |-> 0]

\* match self.spawn() { Err(err) => Err(CommandError::Io(err)) }
ExecuteSpawnFail(t) ==
    /\ parent = Running /\ pc[t] = "idle"
    /\ result' = [result EXCEPT ![t] = [tag |-> "Io", code |-> 0]]
    /\ pc' = [pc EXCEPT ![t] = "done"]
    /\ UNCHANGED <<PID_MAP, lock, cur, guard, waited, os, pidOf, sent,
                   installed, relayPc, relaySig, relayTodo, relaySnap, parent, pvars>>

\* match self.spawn() { Ok(mut child) => ..
ExecuteSpawn(t) ==
    /\ parent = Running /\ pc[t] = "idle"
    /\ CanSpawn
    /\ \E pid \in FreePids :
         /\ os' = [os EXCEPT ![NextProc] = "running"]
         /\ pidOf' = [pidOf EXCEPT ![NextProc] = pid]
    /\ cur' = [cur EXCEPT ![t] = NextProc]
    /\ pc' = [pc EXCEPT ![t] = "exec_wait"]
    /\ UNCHANGED <<PID_MAP, lock, guard, result, waited, sent,
                   installed, relayPc, relaySig, relayTodo, relaySnap, parent, pvars>>

\* match child.wait() { Ok(status) => .. }: returns, with the exit status st,
\* once the child has exited
ExecuteWait(t, st) ==
    /\ parent = Running /\ pc[t] = "exec_wait"
    /\ os[cur[t]] = "zombie"
    /\ os' = [os EXCEPT ![cur[t]] = "reaped"]
    /\ pidOf' = Released(os')
    /\ waited' = [waited EXCEPT ![t] = st]
    /\ result' = [result EXCEPT ![t] = Outcome(st)]
    /\ cur' = [cur EXCEPT ![t] = NoProc]
    /\ pc' = [pc EXCEPT ![t] = "done"]
    /\ UNCHANGED <<PID_MAP, lock, guard, sent,
                   installed, relayPc, relaySig, relayTodo, relaySnap, parent, pvars>>

\* match child.wait() { Err(err) => Err(CommandError::Io(err)) }
ExecuteWaitFail(t) ==
    /\ parent = Running /\ pc[t] = "exec_wait"
    /\ result' = [result EXCEPT ![t] = [tag |-> "Io", code |-> 0]]
    /\ cur' = [cur EXCEPT ![t] = NoProc]
    /\ pc' = [pc EXCEPT ![t] = "done"]
    /\ UNCHANGED <<PID_MAP, lock, guard, waited, os, pidOf, sent,
                   installed, relayPc, relaySig, relayTodo, relaySnap, parent, pvars>>

----------------------------------------------------------------------------
(* Signal relay: cleanup_on_ctrlc / disable_cleanup_on_ctrlc (lib.rs 42-68) *)

\* signal::install_handler(closure)
cleanup_on_ctrlc ==
    /\ parent = Running /\ ~installed
    /\ installed' = TRUE
    /\ UNCHANGED <<PID_MAP, lock, pc, cur, guard, result, waited, os, pidOf, sent,
                   relayPc, relaySig, relayTodo, relaySnap, parent, pvars>>

\* A signal reaches the parent while the handler is installed: the relay
\* calls the closure with it.
SignalArrives(sig) ==
    /\ parent = Running /\ installed /\ relayPc = "idle"
    /\ relayPc' = "dispatch"
    /\ relaySig' = sig
    /\ UNCHANGED <<PID_MAP, lock, pc, cur, guard, result, waited, os, pidOf, sent,
                   installed, relayTodo, relaySnap, parent, pvars>>

\* No handler installed: the default disposition of SIGINT / SIGTERM ends the parent.
DefaultDisposition(sig) ==
    /\ parent = Running /\ ~installed /\ relayPc = "idle"
    /\ sig # "SIGCHLD"
    /\ parent' = Exited(Signaled)
    /\ UNCHANGED <<PID_MAP, lock, pc, cur, guard, result, waited, os, pidOf, sent,
                   installed, relayPc, relaySig, relayTodo, relaySnap, pvars>>

\* the pids under which the map holds an entry
Keys(map) == {pid \in Pids : map[pid] # NoProc}

\* for (_pid, process) in PID_MAP.lock().unwrap().iter()   (all three arms)
\* The MutexGuard is a temporary of the loop head: it lives until the loop ends.
RelayLock ==
    /\ parent = Running /\ relayPc = "dispatch"
    /\ lock = NoThread
    /\ lock' = Relay
    /\ relayTodo' = Keys(PID_MAP)
    /\ relaySnap' = {PID_MAP[pid] : pid \in Keys(PID_MAP)}
    /\ relayPc' = "iter"
    /\ UNCHANGED <<PID_MAP, pc, cur, guard, result, waited, os, pidOf, sent,
                   installed, relaySig, parent, pvars>>

\* RelayStep with a SIGCHLD arm that also takes the entry it reaps out of the map
RelayStep_ChldUnregisters ==
    /\ parent = Running /\ relayPc = "iter"
    /\ \E pid \in relayTodo :
         /\ relayTodo' = relayTodo \ {pid}
         /\ IF relaySig = "SIGCHLD"
            THEN /\ os' = ProcessReap(PID_MAP[pid]) /\ sent' = sent
                 /\ PID_MAP' = IF os[PID_MAP[pid]] = "zombie" THEN Remove(PID_MAP, pid)
                               ELSE PID_MAP
            ELSE sent' = ProcessSignal(PID_MAP[pid], relaySig) /\ os' = os /\ PID_MAP' = PID_MAP
    /\ pidOf' = Released(os')
    /\ UNCHANGED <<lock, pc, cur, guard, result, waited,
                   installed, relayPc, relaySig, relaySnap, parent, pvars>>

\* the loop body: SIGCHLD => process.reap(); SIGINT and the rest => process.signal(sig)
RelayStep ==
    /\ parent = Running /\ relayPc = "iter"
    /\ \E pid \in relayTodo :
         /\ relayTodo' = relayTodo \ {pid}
         /\ IF relaySig = "SIGCHLD"
            THEN os' = ProcessReap(PID_MAP[pid]) /\ sent' = sent
            ELSE sent' = ProcessSignal(PID_MAP[pid], relaySig) /\ os' = os
    /\ pidOf' = Released(os')
    /\ UNCHANGED <<PID_MAP, lock, pc, cur, guard, result, waited,
                   installed, relayPc, relaySig, relaySnap, parent, pvars>>

\* RelayEnd with exit(130) moved into the loop body: the dispatch leaves the
\* loop after any number of entries
RelayEnd_ExitInsideLoop ==
    /\ parent = Running /\ relayPc = "iter"
    /\ lock' = NoThread
    /\ IF relaySig = "SIGINT"
       THEN relayPc' = "exit" /\ UNCHANGED <<relaySig, relaySnap>>
       ELSE relayPc' = "idle" /\ relaySig' = "SIGCHLD" /\ relaySnap' = {}
    /\ relayTodo' = {}
    /\ UNCHANGED <<PID_MAP, pc, cur, guard, result, waited, os, pidOf, sent,
                   installed, parent, pvars>>

\* RelayEnd with exit(130) after the loop of every arm
RelayEnd_ExitAlways ==
    /\ parent = Running /\ relayPc = "iter"
    /\ relayTodo = {}
    /\ lock' = NoThread
    /\ relayPc' = "exit"
    /\ UNCHANGED <<PID_MAP, pc, cur, guard, result, waited, os, pidOf, sent,
                   installed, relaySig, relayTodo, relaySnap, parent, pvars>>

\* the loop is over: the MutexGuard is dropped; the SIGINT arm goes on to
\* exit, the other arms return
RelayEnd ==
    /\ parent = Running /\ relayPc = "iter"
    /\ relayTodo = {}
    /\ lock' = NoThread
    /\ IF relaySig = "SIGINT"
       THEN relayPc' = "exit" /\ UNCHANGED <<relaySig, relaySnap>>
       ELSE relayPc' = "idle" /\ relaySig' = "SIGCHLD" /\ relaySnap' = {}
    /\ UNCHANGED <<PID_MAP, pc, cur, guard, result, waited, os, pidOf, sent,
                   installed, relayTodo, parent, pvars>>

\* ::std::process::exit(130);
RelayExit ==
    /\ parent = Running /\ relayPc = "exit"
    /\ parent' = Exited(ExitStatus)
    /\ UNCHANGED <<PID_MAP, lock, pc, cur, guard, result, waited, os, pidOf, sent,
                   installed, relayPc, relaySig, relayTodo, relaySnap, pvars>>

----------------------------------------------------------------------------
(* The spawned processes *)

\* a running child ends (with an exit code, or killed by a signal)
ChildExit(p) ==
    /\ parent = Running /\ os[p] = "running"
    /\ os' = [os EXCEPT ![p] = "zombie"]
    /\ UNCHANGED <<PID_MAP, lock, pc, cur, guard, result, waited, pidOf, sent,
                   installed, relayPc, relaySig, relayTodo, relaySnap, parent, pvars>>

----------------------------------------------------------------------------

(* Strings are sequences of one-character strings.                         *)

NL == "\n"
DoubleQuote == "\""
\* what a backslash escapes inside double quotes (shlex also lists the backquote)
DoubleQuoteEscapes == {"$", DoubleQuote, "\\"}
Whitespace == {" ", "\t", NL}

\* str::trim
RECURSIVE TrimStart(_)
TrimStart(s) == IF s # <<>> /\ Head(s) \in Whitespace THEN TrimStart(Tail(s)) ELSE s
RECURSIVE TrimEnd(_)
TrimEnd(s) == IF s # <<>> /\ s[Len(s)] \in Whitespace
              THEN TrimEnd(SubSeq(s, 1, Len(s) - 1)) ELSE s
Trim(s) == TrimEnd(TrimStart(s))

\* str::split(c): the pieces between the occurrences of c (always at least one piece)
RECURSIVE SplitAcc(_, _, _, _)
SplitAcc(s, c, piece, out) ==
    IF s = <<>> THEN Append(out, piece)
    ELSE IF Head(s) = c THEN SplitAcc(Tail(s), c, <<>>, Append(out, piece))
    ELSE SplitAcc(Tail(s), c, Append(piece, Head(s)), out)
Split(s, c) == SplitAcc(s, c, <<>>, <<>>)

\* str::split(c) in the place of str::splitn(2, c): cut at every c
Splitn2_AtEvery(s, c) == SplitAcc(s, c, <<>>, <<>>)

\* str::splitn(2, c): cut at the first c only
RECURSIVE Find(_, _, _)
Find(s, c, k) == IF k > Len(s) THEN 0 ELSE IF s[k] = c THEN k ELSE Find(s, c, k + 1)
Splitn2(s, c) ==
    IF Find(s, c, 1) = 0 THEN <<s>>
    ELSE <<SubSeq(s, 1, Find(s, c, 1) - 1), SubSeq(s, Find(s, c, 1) + 1, Len(s))>>

\* [String]::join(sep)
RECURSIVE Join(_, _)
Join(ss, sep) ==
    IF ss = <<>> THEN <<>>
    ELSE IF Len(ss) = 1 THEN ss[1]
    ELSE ss[1] \o sep \o Join(Tail(ss), sep)

\* the command text without the replace of lib.rs 407
ReplaceBackslashNewline_Missing(s) == s

\* str::replace("\\\n", "\n"): every backslash that a newline follows is dropped
RECURSIVE ReplaceBackslashNewline(_)
ReplaceBackslashNewline(s) ==
    IF s = <<>> THEN <<>>
    ELSE IF Len(s) >= 2 /\ s[1] = "\\" /\ s[2] = NL
         THEN <<NL>> \o ReplaceBackslashNewline(SubSeq(s, 3, Len(s)))
    ELSE <<Head(s)>> \o ReplaceBackslashNewline(Tail(s))

\* shlex::split: POSIX-shell word splitting.  ok = FALSE is shlex's None
\* (an unclosed quote, or a backslash with nothing after it).
\* mode: "skip" between words, "comment" after a # that starts a word,
\* "word" inside a word, "single" / "double" inside quotes.
RECURSIVE Shlex(_, _, _, _, _)
Shlex(s, k, mode, word, words) ==
    IF k > Len(s)
    THEN IF mode \in {"skip", "comment"} THEN [ok |-> TRUE, words |-> words]
         ELSE IF mode = "word" THEN [ok |-> TRUE, words |-> Append(words, word)]
         ELSE [ok |-> FALSE, words |-> <<>>]
    ELSE IF mode = "skip"
    THEN IF s[k] \in Whitespace THEN Shlex(s, k + 1, "skip", <<>>, words)
         ELSE IF s[k] = "#" THEN Shlex(s, k + 1, "comment", <<>>, words)
         ELSE Shlex(s, k, "word", <<>>, words)
    ELSE IF mode = "comment"
    THEN Shlex(s, k + 1, IF s[k] = NL THEN "skip" ELSE "comment", <<>>, words)
    ELSE IF mode = "word"
    THEN IF s[k] = DoubleQuote THEN Shlex(s, k + 1, "double", word, words)
         ELSE IF s[k] = "'" THEN Shlex(s, k + 1, "single", word, words)
         ELSE IF s[k] = "\\"
              THEN IF k + 1 > Len(s) THEN [ok |-> FALSE, words |-> <<>>]
                   ELSE Shlex(s, k + 2, "word",
                              IF s[k + 1] = NL THEN word ELSE Append(word, s[k + 1]), words)
         ELSE IF s[k] \in Whitespace THEN Shlex(s, k + 1, "skip", <<>>, Append(words, word))
         ELSE Shlex(s, k + 1, "word", Append(word, s[k]), words)
    ELSE IF mode = "single"
    THEN IF s[k] = "'" THEN Shlex(s, k + 1, "word", word, words)
         ELSE Shlex(s, k + 1, "single", Append(word, s[k]), words)
    ELSE \* "double"
         IF s[k] = DoubleQuote THEN Shlex(s, k + 1, "word", word, words)
         ELSE IF s[k] = "\\"
              THEN IF k + 1 > Len(s) THEN [ok |-> FALSE, words |-> <<>>]
                   ELSE Shlex(s, k + 2, "double",
                              IF s[k + 1] \in DoubleQuoteEscapes THEN Append(word, s[k + 1])
                              ELSE IF s[k + 1] = NL THEN word
                              ELSE word \o <<"\\", s[k + 1]>>, words)
         ELSE Shlex(s, k + 1, "double", Append(word, s[k]), words)

ShlexSplit(s) == Shlex(s, 1, "skip", <<>>, <<>>)

\* shlex::split(&raw_line).unwrap_or_default()
SplitOrDefault(s) == IF ShlexSplit(s).ok THEN ShlexSplit(s).words ELSE <<>>

----------------------------------------------------------------------------
(* The spec texts commandify is run on: up to MaxLines lines joined by '\n'. *)

LineTexts ==
    { <<"c", "d", " ", "x">>,
      <<"c", "d", " ", "n">>,
      <<"c", "d", " ", "x", " ", "y">>,
      <<"e", "x", "p", "o", "r", "t", " ", "A", "=", "B">>,
      <<"e", "x", "p", "o", "r", "t", " ", "A", "=", "C", "=", "D">>,
      <<"e", "x", "p", "o", "r", "t">>,
      <<"e", "x", "p", "o", "r", "t", " ", "A">>,
      <<>>,
      <<"c", " ", "a", " ", "b">>,
      <<"e", " ", "\\">>,
      <<"g", "\\">>,
      <<"f">>,
      <<"#">>,
      <<"'", "u">> }

ExistingDirs == { <<"x">> }

KwCd == <<"c", "d">>
KwExport == <<"e", "x", "p", "o", "r", "t">>

----------------------------------------------------------------------------
(* commandify (lib.rs 350-424) and CommandSpec::to_command (lib.rs 286-323) *)

NoSpec == [binary |-> <<>>, args |-> <<>>, env |-> <<>>, cd |-> <<>>]
NoCmd  == [binary |-> <<>>, args |-> <<>>, env |-> <<>>, dir |-> <<>>]

Pending == [tag |-> "pending", a |-> 0, b |-> 0]
Err(tag, a, b) == [tag |-> tag, a |-> a, b |-> b]
Panic(what) == [tag |-> what, a |-> 0, b |-> 0]

ParseErrors == {"NoChangeDir", "TooManyCDArgs", "ExportMispositioned",
                "NotEnoughExportArgs", "InvalidExport", "NoCommand"}
Panics == {"panic: items[1] out of bounds", "panic: expect(shlex)",
           "panic: remove(0) of empty Vec", "panic: unwrap(canonicalize)"}

\* HashMap::insert(k, v)
EnvInsert(e, k, v) == [x \in (DOMAIN e) \cup {k} |-> IF x = k THEN v ELSE e[x]]

\* the body of the for over &line[1..] (lib.rs 388-392), item by item:
\* the check!, then items[0] and items[1]
RECURSIVE ExportItems(_, _)
ExportItems(items, e) ==
    IF items = <<>> THEN [ret |-> Pending, env |-> e]
    ELSE IF Splitn2(Head(items), "=") = <<>>
         THEN [ret |-> Err("InvalidExport", 0, 0), env |-> e]
    ELSE IF Len(Splitn2(Head(items), "=")) < 2
         THEN [ret |-> Panic("panic: items[1] out of bounds"), env |-> e]
    ELSE ExportItems(Tail(items),
                     EnvInsert(e, Splitn2(Head(items), "=")[1], Splitn2(Head(items), "=")[2]))

\* the line the loop is at, and its tokens (lib.rs 365-366)
raw_line == lines[li]
line == SplitOrDefault(raw_line)

\* line.get(0): <<>> is None, <<w>> is Some(w)
Get0(l) == IF l = <<>> THEN <<>> ELSE <<l[1]>>

InLoop == ppc = "loop" /\ li <= Len(lines)

\* return Err(e) out of commandify
ReturnErr(e) ==
    /\ ret' = e
    /\ ppc' = "done"
    /\ UNCHANGED <<value, lines, li, state, env, cd, command_lines, spec, cmd>>

\* LineInCmd with the blank-line test of lib.rs 370 made before the state
\* test: a blank line inside the command is skipped
LineInCmd_SkipsBlank ==
    /\ InLoop /\ state = "Cmd"
    /\ command_lines' = IF Trim(raw_line) = <<>> THEN command_lines
                        ELSE Append(command_lines, raw_line)
    /\ li' = li + 1
    /\ UNCHANGED <<value, lines, state, env, cd, ppc, spec, cmd, ret, cvars>>

\* lib.rs 367-368: in state Cmd every line is pushed as it is
LineInCmd ==
    /\ InLoop /\ state = "Cmd"
    /\ command_lines' = Append(command_lines, raw_line)
    /\ li' = li + 1
    /\ UNCHANGED <<value, lines, state, env, cd, ppc, spec, cmd, ret, cvars>>

\* LineBlank without the `continue` of lib.rs 370-372: a blank line falls
\* through to the match, whose None arm starts the command with it
LineBlank_StartsCommand ==
    /\ InLoop /\ state # "Cmd"
    /\ Trim(raw_line) = <<>>
    /\ command_lines' = Append(command_lines, raw_line)
    /\ state' = "Cmd"
    /\ li' = li + 1
    /\ UNCHANGED <<value, lines, env, cd, ppc, spec, cmd, ret, cvars>>

\* lib.rs 370-372: a blank line before the command is skipped
LineBlank ==
    /\ InLoop /\ state # "Cmd"
    /\ Trim(raw_line) = <<>>
    /\ li' = li + 1
    /\ UNCHANGED <<value, lines, state, env, cd, command_lines, ppc, spec, cmd, ret, cvars>>

\* the Some("cd") arm with its position check left out
CdPositionOk_Anywhere == TRUE

\* the guard of the Some("cd") arm
CdPositionOk == state = "Cd"

\* lib.rs 375-382
LineCd ==
    /\ InLoop /\ state # "Cmd"
    /\ Trim(raw_line) # <<>>
    /\ Get0(line) = <<KwCd>>
    /\ IF ~CdPositionOk THEN ReturnErr(Err("NoChangeDir", 0, 0))
       ELSE IF Len(line) # 2 THEN ReturnErr(Err("TooManyCDArgs", 1, Len(line) - 1))
       ELSE /\ cd' = <<line[2]>>
            /\ state' = "Env"
            /\ li' = li + 1
            /\ UNCHANGED <<value, lines, env, command_lines, ppc, spec, cmd, ret>>
    /\ UNCHANGED cvars

\* the Some("export") arm accepting exports only after a cd line
ExportPositionOk_AfterCdOnly == state = "Env"

\* the guard of the Some("export") arm
ExportPositionOk == state = "Cd" \/ state = "Env"

\* lib.rs 383-394
LineExport ==
    /\ InLoop /\ state # "Cmd"
    /\ Trim(raw_line) # <<>>
    /\ Get0(line) = <<KwExport>>
    /\ IF ~ExportPositionOk THEN ReturnErr(Err("ExportMispositioned", 0, 0))
       ELSE IF ~(Len(line) >= 2) THEN ReturnErr(Err("NotEnoughExportArgs", 1, Len(line) - 1))
       ELSE IF ExportItems(Tail(line), env).ret # Pending
            THEN ReturnErr(ExportItems(Tail(line), env).ret)
       ELSE /\ env' = ExportItems(Tail(line), env).env
            /\ state' = "Env"
            /\ li' = li + 1
            /\ UNCHANGED <<value, lines, cd, command_lines, ppc, spec, cmd, ret>>
    /\ UNCHANGED cvars

\* lib.rs 395-398: anything else starts the command
LineCommand ==
    /\ InLoop /\ state # "Cmd"
    /\ Trim(raw_line) # <<>>
    /\ Get0(line) \notin {<<KwCd>>, <<KwExport>>}
    /\ command_lines' = Append(command_lines, raw_line)
    /\ state' = "Cmd"
    /\ li' = li + 1
    /\ UNCHANGED <<value, lines, env, cd, ppc, spec, cmd, ret, cvars>>

\* lib.rs 407: the command text
command_string == ReplaceBackslashNewline(Join(command_lines, <<NL>>))

\* lib.rs 402-418: after the loop
Finish ==
    /\ ppc = "loop" /\ li > Len(lines)
    /\ IF state # "Cmd" \/ command_lines = <<>> THEN ReturnErr(Err("NoCommand", 0, 0))
       ELSE IF ~ShlexSplit(command_string).ok THEN ReturnErr(Panic("panic: expect(shlex)"))
       ELSE IF ShlexSplit(command_string).words = <<>>
            THEN ReturnErr(Panic("panic: remove(0) of empty Vec"))
       ELSE /\ spec' = [binary |-> Head(ShlexSplit(command_string).words),
                        args   |-> Tail(ShlexSplit(command_string).words),
                        env    |-> env,
                        cd     |-> cd]
            /\ ppc' = "to_command"
            /\ UNCHANGED <<value, lines, li, state, env, cd, command_lines, cmd, ret>>
    /\ UNCHANGED cvars

\* Path::canonicalize: the resolved absolute path of a directory that exists
Canonicalize(path) == <<"/">> \o path
CurrentDir == <<"/">>

\* lib.rs 286-322 (the branches of cfg!(windows) are not taken), and Ok(..) at 423
ToCommand ==
    /\ ppc = "to_command"
    /\ IF spec.cd # <<>> /\ spec.cd[1] \notin ExistingDirs
       THEN ReturnErr(Panic("panic: unwrap(canonicalize)"))
       ELSE /\ cmd' = [binary |-> spec.binary,
                       args   |-> spec.args,
                       env    |-> spec.env,
                       dir    |-> IF spec.cd # <<>> THEN Canonicalize(spec.cd[1])
                                  ELSE CurrentDir]
            /\ ret' = [tag |-> "Ok", a |-> 0, b |-> 0]
            /\ ppc' = "done"
            /\ UNCHANGED <<value, lines, li, state, env, cd, command_lines, spec>>
    /\ UNCHANGED cvars

----------------------------------------------------------------------------
(* commandify as a function of the lines of its text: what a call returns   *)
(* for the lines ls, computed as the loop and the code after it compute it. *)

Stopped(e) == [ret |-> e, state |-> "Cd", env |-> <<>>, cd |-> <<>>, command_lines |-> <<>>]

\* the for loop (lib.rs 365-401) from line k on, with the locals st, e, c, cl
RECURSIVE LoopFrom(_, _, _, _, _, _)
LoopFrom(ls, k, st, e, c, cl) ==
    IF k > Len(ls)
    THEN [ret |-> Pending, state |-> st, env |-> e, cd |-> c, command_lines |-> cl]
    ELSE IF st = "Cmd" THEN LoopFrom(ls, k + 1, st, e, c, Append(cl, ls[k]))
    ELSE IF Trim(ls[k]) = <<>> THEN LoopFrom(ls, k + 1, st, e, c, cl)
    ELSE IF Get0(SplitOrDefault(ls[k])) = <<KwCd>>
         THEN IF st # "Cd" THEN Stopped(Err("NoChangeDir", 0, 0))
              ELSE IF Len(SplitOrDefault(ls[k])) # 2
                   THEN Stopped(Err("TooManyCDArgs", 1, Len(SplitOrDefault(ls[k])) - 1))
              ELSE LoopFrom(ls, k + 1, "Env", e, <<SplitOrDefault(ls[k])[2]>>, cl)
    ELSE IF Get0(SplitOrDefault(ls[k])) = <<KwExport>>
         THEN IF ~(st = "Cd" \/ st = "Env") THEN Stopped(Err("ExportMispositioned", 0, 0))
              ELSE IF ~(Len(SplitOrDefault(ls[k])) >= 2)
                   THEN Stopped(Err("NotEnoughExportArgs", 1, Len(SplitOrDefault(ls[k])) - 1))
              ELSE IF ExportItems(Tail(SplitOrDefault(ls[k])), e).ret # Pending
                   THEN Stopped(ExportItems(Tail(SplitOrDefault(ls[k])), e).ret)
              ELSE LoopFrom(ls, k + 1, "Env",
                            ExportItems(Tail(SplitOrDefault(ls[k])), e).env, c, cl)
    ELSE LoopFrom(ls, k + 1, "Cmd", e, c, Append(cl, ls[k]))

\* lib.rs 402-423 and to_command (lib.rs 286-322) on what the loop left
AfterLoop(r) ==
    IF r.ret # Pending THEN [ret |-> r.ret, cmd |-> NoCmd]
    ELSE IF r.state # "Cmd" \/ r.command_lines = <<>>
         THEN [ret |-> Err("NoCommand", 0, 0), cmd |-> NoCmd]
    ELSE IF ~ShlexSplit(ReplaceBackslashNewline(Join(r.command_lines, <<NL>>))).ok
         THEN [ret |-> Panic("panic: expect(shlex)"), cmd |-> NoCmd]
    ELSE IF ShlexSplit(ReplaceBackslashNewline(Join(r.command_lines, <<NL>>))).words = <<>>
         THEN [ret |-> Panic("panic: remove(0) of empty Vec"), cmd |-> NoCmd]
    ELSE IF r.cd # <<>> /\ r.cd[1] \notin ExistingDirs
         THEN [ret |-> Panic("panic: unwrap(canonicalize)"), cmd |-> NoCmd]
    ELSE [ret |-> [tag |-> "Ok", a |-> 0, b |-> 0],
          cmd |-> [binary |-> Head(ShlexSplit(ReplaceBackslashNewline(
                                       Join(r.command_lines, <<NL>>))).words),
                   args   |-> Tail(ShlexSplit(ReplaceBackslashNewline(
                                       Join(r.command_lines, <<NL>>))).words),
                   env    |-> r.env,
                   dir    |-> IF r.cd # <<>> THEN Canonicalize(r.cd[1]) ELSE CurrentDir]]

\* what commandify returns for a text whose lines are ls
commandify(ls) == AfterLoop(LoopFrom(ls, 1, "Cd", <<>>, <<>>, <<>>))

----------------------------------------------------------------------------

InitRegistry ==
    /\ PID_MAP = [pid \in Pids |-> NoProc]
    /\ lock = NoThread
    /\ pc = [t \in Threads |-> "idle"]
    /\ cur = [t \in Threads |-> NoProc]
    /\ guard = [t \in Threads |-> NoGuard]
    /\ result = [t \in Threads |-> NoResult]
    /\ waited = [t \in Threads |-> 0]
    /\ os = [p \in Procs |-> "unborn"]
    /\ pidOf = [p \in Procs |-> NoPid]
    /\ sent = [p \in Procs |-> {}]
    /\ installed = FALSE
    /\ relayPc = "idle"
    /\ relaySig = "SIGCHLD"
    /\ relayTodo = {}
    /\ relaySnap = {}
    /\ parent = Running

\* commandify(text), at the head of its loop
InitParser(text) ==
    /\ value = text
    /\ lines = Split(Trim(text), NL)
    /\ li = 1
    /\ state = "Cd"
    /\ env = <<>>
    /\ cd = <<>>
    /\ command_lines = <<>>
    /\ ppc = "loop"
    /\ spec = NoSpec
    /\ cmd = NoCmd
    /\ ret = Pending

ParserOff ==
    /\ value = <<>> /\ lines = <<>> /\ li = 1 /\ state = "Cd" /\ env = <<>> /\ cd = <<>>
    /\ command_lines = <<>> /\ ppc = "off" /\ spec = NoSpec /\ cmd = NoCmd /\ ret = Pending

Init == InitRegistry /\ ParserOff

\* the texts: 1..MaxLines lines, each one of LineTexts
Texts == {Join(ls, <<NL>>) : ls \in UNION {[1..n -> LineTexts] : n \in 1..MaxLines}}

InitParse == InitRegistry /\ \E text \in Texts : InitParser(text)

NextParse ==
    \/ LineInCmd
    \/ LineBlank
    \/ LineCd
    \/ LineExport
    \/ LineCommand
    \/ Finish
    \/ ToCommand

SpecParse == InitParse /\ [][NextParse]_vars

Next ==
    \/ \E t \in Threads : ScopedSpawnFail(t)
    \/ \E t \in Threads : ScopedSpawnNew(t)
    \/ \E t \in Threads : ScopedSpawnInsert(t)
    \/ \E t \in Threads : Return(t)
    \/ \E t \in Threads : DropLock(t)
    \/ \E t \in Threads : DropReap(t)
    \/ \E t \in Threads : ExecuteSpawnFail(t)
    \/ \E t \in Threads : ExecuteSpawn(t)
    \/ \E t \in Threads, st \in ExitCodes \cup {Signaled} : ExecuteWait(t, st)
    \/ \E t \in Threads : ExecuteWaitFail(t)
    \/ cleanup_on_ctrlc
    \/ \E sig \in Signals : SignalArrives(sig)
    \/ \E sig \in Signals : DefaultDisposition(sig)
    \/ RelayLock
    \/ RelayStep
    \/ RelayEnd
    \/ RelayExit
    \/ \E p \in Procs : ChildExit(p)

Spec == Init /\ [][Next]_vars

\* Fair scheduling: a thread or the relay that holds the lock goes on (weak
\* fairness of the steps made with the lock held, and of exit); one that
\* waits for the lock gets it if it is free again and again (strong fairness
\* of the steps that take the lock); a call that has returned is left, and a
\* guard goes out of scope.
Fairness ==
    /\ \A t \in Threads : SF_vars(ScopedSpawnInsert(t))
    /\ \A t \in Threads : SF_vars(DropLock(t))
    /\ \A t \in Threads : WF_vars(DropReap(t))
    /\ \A t \in Threads : WF_vars(Return(t))
    /\ SF_vars(RelayLock)
    /\ WF_vars(RelayStep)
    /\ WF_vars(RelayEnd)
    /\ WF_vars(RelayExit)

\* the threads call scoped_spawn and drop their guards (no thread blocks in
\* execute's wait), and the relay dispatches
NextRegistry ==
    \/ \E t \in Threads : ScopedSpawnFail(t)
    \/ \E t \in Threads : ScopedSpawnNew(t)
    \/ \E t \in Threads : ScopedSpawnInsert(t)
    \/ \E t \in Threads : Return(t)
    \/ \E t \in Threads : DropLock(t)
    \/ \E t \in Threads : DropReap(t)
    \/ cleanup_on_ctrlc
    \/ \E sig \in Signals : SignalArrives(sig)
    \/ \E sig \in Signals : DefaultDisposition(sig)
    \/ RelayLock
    \/ RelayStep
    \/ RelayEnd
    \/ RelayExit
    \/ \E p \in Procs : ChildExit(p)

SpecFair == Init /\ [][NextRegistry]_vars /\ Fairness

----------------------------------------------------------------------------
(* Claims about the registry, the relay, the guards and the facade (Spec)   *)

\* the handles the registry holds
Registered == {PID_MAP[pid] : pid \in Keys(PID_MAP)}

\* C1: while execute blocks in child.wait(), the process it spawned is in the
\* registry (so that a dispatched interrupt is forwarded to it).
C1_ExecuteChildRegistered ==
    \A t \in Threads : pc[t] = "exec_wait" => cur[t] \in Registered

C3_TeardownSignalsBeforeUnregister ==
    \A t \in Threads : pc[t] = "drop_reap" => sent[cur[t]] # {}

\* C4: an entry stored under a pid is never replaced by a later registration
\* under the same pid.
C4_NoSilentReplace ==
    [][\A pid \in Pids :
         (PID_MAP[pid] # NoProc /\ PID_MAP'[pid] # NoProc) => PID_MAP'[pid] = PID_MAP[pid]]_vars

\* C5: no thread holds the registry lock while it calls Process::signal or
\* Process::reap: not a guard teardown in its reap, not the relay in its loop body.
C5_NoProcessCallUnderLock ==
    /\ \A t \in Threads : pc[t] = "drop_reap" => lock # t
    /\ (relayPc = "iter" /\ relayTodo # {}) => lock # Relay

\* what execute can return
ExecuteOutcomes ==
    {[tag |-> "Ok", code |-> 0], [tag |-> "Interrupt", code |-> 0], [tag |-> "Io", code |-> 0]}
    \cup {[tag |-> "Code", code |-> c] : c \in ExitCodes \ {0}}

\* C13: the step in which execute returns gives exactly one outcome, fixed by
\* how the child ended: Ok for exit code 0, Code(c) for the nonzero exit code
\* c, Interrupt for an end by signal (no code), Io when the wait failed; and
\* Io when the spawn failed.  A thread that has spawned for execute returns
\* nothing else.
C13_ExecuteOutcome ==
    [][\A t \in Threads :
         /\ (pc[t] = "exec_wait" /\ pc'[t] = "done") =>
               /\ result'[t] \in ExecuteOutcomes
               /\ IF os'[cur[t]] = "reaped" /\ os[cur[t]] = "zombie"
                  THEN /\ waited'[t] = 0 <=> result'[t] = [tag |-> "Ok", code |-> 0]
                       /\ waited'[t] = Signaled <=> result'[t] = [tag |-> "Interrupt", code |-> 0]
                       /\ waited'[t] \notin {0, Signaled}
                            <=> result'[t] = [tag |-> "Code", code |-> waited'[t]]
                       /\ result'[t].tag = "Code" => result'[t].code = waited'[t]
                  ELSE result'[t] = [tag |-> "Io", code |-> 0]
         /\ (pc[t] = "exec_wait" /\ pc'[t] # "done") => pc'[t] = "exec_wait"
         /\ (pc[t] = "idle" /\ pc'[t] = "done") =>
               result'[t].tag \in {"Io", "SpawnErr"}
      ]_vars

\* C13 witness: execute has returned Code(7) for a child that exited with 7.
C13_Witness ==
    \E t \in Threads :
        /\ pc[t] = "done" /\ waited[t] = 7
        /\ result[t] = [tag |-> "Code", code |-> 7]

\* the relay takes a step of the dispatch it is in
RelayActs == relayPc' # relayPc \/ relayTodo' # relayTodo

\* C14: while the relay dispatches SIGTERM (a terminating signal that is
\* neither SIGINT nor SIGCHLD) the parent stays alive and no step of the
\* dispatch changes the registry; and when its loop ends, every handle that
\* was in the registry when the loop began has been sent SIGTERM and the
\* relay is idle again.
C14_OtherSignalForwardedOnly ==
    [][(relaySig = "SIGTERM" /\ relayPc # "idle") =>
         /\ parent' = Running
         /\ (RelayActs \/ lock = Relay) => PID_MAP' = PID_MAP
         /\ (relayPc = "iter" /\ relayPc' # "iter") =>
               /\ \A p \in relaySnap : "SIGTERM" \in sent[p]
               /\ relayPc' = "idle"
      ]_vars

\* C14 witness: the loop of a SIGTERM dispatch over two entries is over.
C14_Witness ==
    /\ relaySig = "SIGTERM" /\ relayPc = "iter" /\ relayTodo = {}
    /\ Cardinality(relaySnap) = 2 /\ Registered = relaySnap
    /\ \A p \in relaySnap : "SIGTERM" \in sent[p]
    /\ parent = Running

\* C15: a step of a SIGCHLD dispatch leaves the registry, the guards and the
\* signals sent unchanged, and all it does to a process is to reap a
\* registered one that has exited; and from the moment the dispatch holds the
\* registry until it ends, no other step changes the registry or the guards.
C15_ChildStateChangedOnlyReaps ==
    [][(relaySig = "SIGCHLD" /\ relayPc \in {"dispatch", "iter"}) =>
         /\ RelayActs =>
               /\ PID_MAP' = PID_MAP /\ guard' = guard /\ sent' = sent
               /\ \A p \in Procs : os'[p] # os[p] =>
                      os[p] = "zombie" /\ os'[p] = "reaped" /\ p \in Registered
         /\ relayPc = "iter" => PID_MAP' = PID_MAP /\ guard' = guard /\ sent' = sent
      ]_vars

\* C15 witness: the loop of a SIGCHLD dispatch is over, it has reaped the
\* process of a guard, and the guard's entry is still in the registry.
C15_Witness ==
    /\ relaySig = "SIGCHLD" /\ relayPc = "iter" /\ relayTodo = {}
    /\ \E t \in Threads :
          /\ guard[t] # NoGuard /\ os[guard[t].proc] = "reaped"
          /\ PID_MAP[guard[t].pid] = guard[t].proc

\* thread t takes the first step of the teardown of its guard (the remove)
TeardownBegins(t) ==
    /\ pc[t] = "idle" /\ guard[t] # NoGuard
    /\ pc'[t] = "drop_reap" \/ guard'[t] = NoGuard

\* thread t takes the last step of a teardown that found its entry (the reap)
TeardownEnds(t) == pc[t] = "drop_reap" /\ pc'[t] # "drop_reap"

\* C16: no step of the teardown of a guard sends a signal (so none is sent
\* once the process was observed exited); a teardown takes at most one entry
\* out of the registry, in its first step, and nothing is removed while it
\* goes on; and the teardown of a guard whose id is not in the registry
\* changes nothing but the guard, which is gone: it does not fail.
C16_TeardownOnceAndSilent ==
    [][\A t \in Threads :
         /\ (TeardownBegins(t) \/ TeardownEnds(t)) => sent' = sent
         /\ pc[t] = "drop_reap" => PID_MAP' = PID_MAP
         /\ TeardownBegins(t) =>
               IF PID_MAP[guard[t].pid] = NoProc
               THEN /\ guard'[t] = NoGuard /\ pc'[t] = "idle"
                    /\ PID_MAP' = PID_MAP /\ os' = os /\ lock' = lock
                    /\ parent' = Running
               ELSE /\ PID_MAP' = Remove(PID_MAP, guard[t].pid)
                    /\ parent' = Running
      ]_vars

\* C16 witness: the teardown of a guard whose process had been observed
\* exited (reaped by the relay) has removed the entry and sent no signal.
C16_Witness ==
    \E t \in Threads :
        /\ pc[t] = "drop_reap" /\ cur[t] = guard[t].proc
        /\ os[cur[t]] = "reaped" /\ sent[cur[t]] = {}
        /\ PID_MAP[guard[t].pid] = NoProc

\* a guard a thread owns and is not tearing down
LiveGuard(t) == guard[t] # NoGuard /\ pc[t] # "drop_reap"

\* C17: no two live guards own the same process id, and the registry entry
\* under the id of a live guard is the process that guard spawned.
C17_GuardsOwnDistinctRegisteredIds ==
    \A t \in Threads : LiveGuard(t) =>
        /\ PID_MAP[guard[t].pid] = guard[t].proc
        /\ \A u \in Threads \ {t} : LiveGuard(u) => guard[u].pid # guard[t].pid

\* C19: a scoped_spawn whose spawn fails leaves the registry and the guards
\* unchanged; an entry comes into the registry only with the guard of a
\* successful scoped_spawn; and an entry leaves the registry only in the
\* teardown of the guard that owns it, which removes that entry and no other.
C19_AddedBySpawnRemovedByOwner ==
    [][/\ \A t \in Threads :
            (pc[t] = "idle" /\ pc'[t] = "done" /\ result'[t].tag = "SpawnErr")
                => PID_MAP' = PID_MAP /\ guard' = guard
       /\ \A pid \in Pids :
            (PID_MAP[pid] = NoProc /\ PID_MAP'[pid] # NoProc) =>
                \E t \in Threads :
                    /\ pc[t] = "ss_insert" /\ pc'[t] = "done"
                    /\ guard'[t] = [pid |-> pid, proc |-> PID_MAP'[pid]]
       /\ \A pid \in Pids :
            (PID_MAP[pid] # NoProc /\ PID_MAP'[pid] # PID_MAP[pid]) =>
                \E t \in Threads :
                    /\ TeardownBegins(t)
                    /\ guard[t] = [pid |-> pid, proc |-> PID_MAP[pid]]
                    /\ PID_MAP' = Remove(PID_MAP, pid)
      ]_vars

----------------------------------------------------------------------------
(* Claims about commandify (SpecParse)                                      *)

Tokens(l) == SplitOrDefault(l)
IsBlankLine(l) == Trim(l) = <<>>
IsCdLine(l) == ~IsBlankLine(l) /\ Get0(Tokens(l)) = <<KwCd>>
IsExportLine(l) == ~IsBlankLine(l) /\ Get0(Tokens(l)) = <<KwExport>>
HasEq(tok) == \E k \in 1..Len(tok) : tok[k] = "="
\* NAME and VALUE of a NAME=VALUE token: the text before / after its first '='
NameOf(tok) == SubSeq(tok, 1, (CHOOSE k \in 1..Len(tok) :
                                 tok[k] = "=" /\ \A j \in 1..(k - 1) : tok[j] # "=") - 1)
ValueOf(tok) == SubSeq(tok, Len(NameOf(tok)) + 2, Len(tok))
WellFormedExport(l) ==
    /\ IsExportLine(l) /\ Len(Tokens(l)) >= 2
    /\ \A k \in 2..Len(Tokens(l)) : HasEq(Tokens(l)[k])

\* a line that starts a command and tokenizes to a binary and its args
IsCommandLine(l) ==
    /\ ~IsBlankLine(l) /\ ~IsCdLine(l) /\ ~IsExportLine(l)
    /\ ShlexSplit(l).ok /\ Tokens(l) # <<>>

\* index of the first line that is not blank (0: there is none)
RECURSIVE FirstNonBlankFrom(_, _)
FirstNonBlankFrom(ls, k) ==
    IF k > Len(ls) THEN 0 ELSE IF ~IsBlankLine(ls[k]) THEN k ELSE FirstNonBlankFrom(ls, k + 1)
FirstNonBlank == FirstNonBlankFrom(lines, 1)

\* the first non-blank line is an export line: an export before any cd
ExportFirst == FirstNonBlank # 0 /\ IsExportLine(lines[FirstNonBlank])

\* C6 as stated: a spec with a (well-formed) export line before any cd line,
\* and a command line at its end, is rejected with ExportMispositioned.
C6_ExportBeforeCdRejected ==
    (ppc = "done" /\ ExportFirst /\ WellFormedExport(lines[FirstNonBlank])
       /\ IsCommandLine(lines[Len(lines)]))
        => ret.tag = "ExportMispositioned"

\* C6 amended: commandify never returns ExportMispositioned; a well-formed
\* export on the first non-blank line is accepted: the parse goes on past it,
\* in a state other than awaiting-cd, with the exported names recorded.
C6_ExportBeforeCdAccepted ==
    /\ ret.tag # "ExportMispositioned"
    /\ (ExportFirst /\ WellFormedExport(lines[FirstNonBlank]))
         => /\ ppc = "done" => li > FirstNonBlank
            /\ li > FirstNonBlank =>
                 /\ state # "Cd"
                 /\ \A k \in 2..Len(Tokens(lines[FirstNonBlank])) :
                      NameOf(Tokens(lines[FirstNonBlank])[k]) \in DOMAIN env

\* C6 witness: a spec that starts with an export line has been parsed to a Command.
C6_Witness ==
    /\ ppc = "done" /\ ret.tag = "Ok"
    /\ ExportFirst /\ env # <<>>

\* C7 as stated: whenever the loop comes to a cd line that is not the first
\* non-blank line, commandify returns NoChangeDir.
C7_LateCdRejected ==
    [][(InLoop /\ IsCdLine(raw_line) /\ li # FirstNonBlank)
         => (ppc' = "done" /\ ret'.tag = "NoChangeDir")]_vars

\* C7 amended: a cd line met in state awaiting-env-or-command (after a cd or
\* an export line) makes commandify return NoChangeDir; a cd line met after
\* the first command line is pushed to the command lines and nothing is returned.
C7_LateCdRejectedBeforeCommand ==
    [][(InLoop /\ IsCdLine(raw_line) /\ li # FirstNonBlank)
         => IF state = "Cmd"
            THEN /\ command_lines' = Append(command_lines, raw_line)
                 /\ ppc' = "loop" /\ ret' = Pending /\ UNCHANGED <<state, cd, env>>
            ELSE ppc' = "done" /\ ret'.tag = "NoChangeDir"]_vars

\* C7 witness: NoChangeDir was returned for a cd line that follows an export line.
C7_Witness ==
    /\ ppc = "done" /\ ret.tag = "NoChangeDir"
    /\ env # <<>> /\ cd = <<>>

\* the export line the loop stopped at
AtExportLine == ppc = "done" /\ li <= Len(lines) /\ state # "Cmd" /\ IsExportLine(raw_line)

\* C8: a malformed export line ends commandify with a parse error value:
\* NotEnoughExportArgs(1, 0) when it has no token, InvalidExport when a token
\* has no '='.
C8_MalformedExportIsParseError ==
    AtExportLine =>
        IF Len(line) < 2 THEN ret = Err("NotEnoughExportArgs", 1, 0)
        ELSE (\E k \in 2..Len(line) : ~HasEq(line[k])) => ret.tag = "InvalidExport"

\* C9: commandify ends with an invocation or with one of the six parse errors.
C9_OkOrParseError ==
    ppc = "done" => ret.tag \in {"Ok"} \cup ParseErrors

\* the spec  cd X / export lines / command line
CdExportsCommand ==
    /\ Len(lines) >= 2
    /\ IsCdLine(lines[1]) /\ Len(Tokens(lines[1])) = 2
    /\ \A k \in 2..(Len(lines) - 1) : WellFormedExport(lines[k])
    /\ IsCommandLine(lines[Len(lines)])

\* the NAME=VALUE tokens of lines k..n, in order
RECURSIVE ExportTokens(_, _, _)
ExportTokens(ls, k, n) ==
    IF k > n THEN <<>> ELSE Tail(Tokens(ls[k])) \o ExportTokens(ls, k + 1, n)

\* the environment the export tokens stand for: NAME -> VALUE of the last
\* token that exports NAME
ExportedEnv(toks) ==
    [name \in {NameOf(toks[k]) : k \in 1..Len(toks)} |->
        ValueOf(toks[CHOOSE k \in 1..Len(toks) :
                       /\ NameOf(toks[k]) = name
                       /\ \A j \in (k + 1)..Len(toks) : NameOf(toks[j]) # name])]

\* C10: for the spec  cd X / export lines / command line  the invocation built
\* has working directory X, the exported environment, the first token of the
\* command as binary and the remaining tokens as args; no parse error is
\* returned, and where X is an existing directory the Command returned has the
\* same binary, args and environment and runs in the canonical form of X.
C10_CdExportsCommandParsed ==
    CdExportsCommand =>
        /\ ppc = "done" => ret.tag \notin ParseErrors
        /\ ppc \in {"to_command", "done"} =>
             /\ spec.cd = <<Tokens(lines[1])[2]>>
             /\ spec.env = ExportedEnv(ExportTokens(lines, 2, Len(lines) - 1))
             /\ spec.binary = Tokens(lines[Len(lines)])[1]
             /\ spec.args = Tail(Tokens(lines[Len(lines)]))
        /\ (ppc = "done" /\ Tokens(lines[1])[2] \in ExistingDirs) =>
             /\ ret.tag = "Ok"
             /\ cmd = [binary |-> spec.binary, args |-> spec.args, env |-> spec.env,
                       dir |-> Canonicalize(Tokens(lines[1])[2])]

\* C10 witness: cd x / export A=.. / c a b has been parsed to a Command.
C10_Witness ==
    /\ CdExportsCommand /\ ppc = "done" /\ ret.tag = "Ok"
    /\ spec.env # <<>> /\ Len(spec.args) = 2

\* a line the grammar gives no command: blank, cd, or a well-formed export
NoCommandLine(l) == IsBlankLine(l) \/ IsCdLine(l) \/ WellFormedExport(l)

\* index of the line that starts the command: the first line that is not
\* blank, not a cd line and not an export line (0: there is none)
RECURSIVE CommandStartFrom(_, _)
CommandStartFrom(ls, k) ==
    IF k > Len(ls) THEN 0
    ELSE IF ~IsBlankLine(ls[k]) /\ ~IsCdLine(ls[k]) /\ ~IsExportLine(ls[k]) THEN k
    ELSE CommandStartFrom(ls, k + 1)

\* ls without the blank lines among its lines k..(n - 1)
RECURSIVE DropBlankBefore(_, _, _)
DropBlankBefore(ls, k, n) ==
    IF k > Len(ls) THEN <<>>
    ELSE (IF k < n /\ IsBlankLine(ls[k]) THEN <<>> ELSE <<ls[k]>>)
         \o DropBlankBefore(ls, k + 1, n)

\* the lines without the blank lines that precede the command
WithoutLeadingBlanks ==
    DropBlankBefore(lines, 1, IF CommandStartFrom(lines, 1) = 0 THEN Len(lines) + 1
                              ELSE CommandStartFrom(lines, 1))

\* C11 as stated: a spec whose lines are all blank, cd (with its one argument)
\* or well-formed export lines makes commandify return NoCommand.
C11_NoCommandLineIsNoCommand ==
    (ppc = "done" /\ \A k \in 1..Len(lines) :
                        /\ NoCommandLine(lines[k])
                        /\ IsCdLine(lines[k]) => Len(Tokens(lines[k])) = 2)
        => ret = Err("NoCommand", 0, 0)

\* C11 amended: a spec whose lines are all blank lines, well-formed export
\* lines, or a cd line with one argument that is the first non-blank line,
\* makes commandify return NoCommand; and what commandify returns for a text
\* is what it returns for the text without the blank lines that precede its
\* command.
C11_ValidPrefixOnlyIsNoCommand ==
    ppc = "done" =>
        /\ (\A k \in 1..Len(lines) :
               \/ IsBlankLine(lines[k])
               \/ WellFormedExport(lines[k])
               \/ IsCdLine(lines[k]) /\ Len(Tokens(lines[k])) = 2 /\ k = FirstNonBlank)
             => ret = Err("NoCommand", 0, 0)
        /\ [ret |-> ret, cmd |-> cmd] = commandify(WithoutLeadingBlanks)

\* C11 witness: NoCommand was returned for a cd line, a blank line and an
\* export line.
C11_Witness ==
    /\ ppc = "done" /\ ret = Err("NoCommand", 0, 0)
    /\ Len(lines) = 3 /\ IsCdLine(lines[1]) /\ IsBlankLine(lines[2])
    /\ WellFormedExport(lines[3])

EndsWithBackslash(l) == l # <<>> /\ l[Len(l)] = "\\"
\* a line without the backslash that ends it
Unslash(l) == IF EndsWithBackslash(l) THEN SubSeq(l, 1, Len(l) - 1) ELSE l

\* the text is a command whose lines a trailing backslash joins: its first
\* line starts the command, every line but the last ends with a backslash,
\* and each line (without that backslash) tokenizes
ContinuedCommand ==
    /\ Len(lines) >= 2
    /\ CommandStartFrom(lines, 1) = 1
    /\ \A k \in 1..(Len(lines) - 1) : EndsWithBackslash(lines[k])
    /\ ~EndsWithBackslash(lines[Len(lines)])
    /\ \A k \in 1..Len(lines) : ShlexSplit(Unslash(lines[k])).ok

\* the tokens of the lines k.. of ls, each without its trailing backslash, in order
RECURSIVE ContinuedTokens(_, _)
ContinuedTokens(ls, k) ==
    IF k > Len(ls) THEN <<>>
    ELSE ShlexSplit(Unslash(ls[k])).words \o ContinuedTokens(ls, k + 1)

StateRank(st) == IF st = "Cd" THEN 1 ELSE IF st = "Env" THEN 2 ELSE 3

\* C20: over the lines of any text the state never moves back; in state
\* in-command the loop appends the line it is at, whatever it is, to the
\* command lines and changes neither the state nor cd nor the environment,
\* and returns nothing; and a blank line leaves the state as it is.
C20_StateOnlyMovesForward ==
    [][/\ StateRank(state') >= StateRank(state)
       /\ (InLoop /\ state = "Cmd") =>
             /\ command_lines' = Append(command_lines, raw_line)
             /\ li' = li + 1 /\ ppc' = "loop" /\ ret' = Pending
             /\ UNCHANGED <<state, cd, env>>
       /\ (InLoop /\ IsBlankLine(raw_line)) => (state' = state /\ ret' = Pending)
      ]_vars

\* C20 witness: in state in-command a blank line and an export line have
\* been appended to the command lines.
C20_Witness ==
    /\ state = "Cmd" /\ Len(command_lines) = 3 /\ li = 4
    /\ IsBlankLine(command_lines[2])
    /\ IsExportLine(command_lines[3])
    /\ cd = <<>> /\ env = <<>>

====
